---- MODULE Spec2Model ----
(***************************************************************************)
(* A model of the ToyVM bytecode machine of src/minvm.c: the memory tape,  *)
(* the CPU state, the opcode table, one action per instruction rule and    *)
(* the fetch-execute loop of RunVM, started the way src/main.c starts it.  *)
(*                                                                         *)
(* Words are 32-bit two's complement integers, kept inside                 *)
(* -2^31 .. 2^31-1 by the wrap-around operators below.  A size_t entry of  *)
(* the opcode map is kept as its two 32-bit halves.                        *)
(***************************************************************************)
EXTENDS Integers, Sequences, FiniteSets, TLC

(* ---------------------------------------------------------------- opcodes *)
ADD == 1
NEG == 2
MUL == 3
DIV == 4
MOD == 5
CMP == 16
JA == 17
JE == 18
JB == 19
JMP == 20
CALL == 32
RET == 33
LOAD == 48
STORE == 49
CONST == 50
RLOAD == 51
RSTORE == 52
HALT == 64
INT == 65
NOP == 66
PUSH == 80
PUSH_ALL == 81
POP == 82
POP_ALL == 83
LSP == 84
REG1 == 0
REG2 == 1
REG3 == 2
REG4 == 3
INTERRUPT_PRINT_INTEGER == 1
INTERRUPT_PRINT_STRING == 2
N_REGISTERS == 4
OPCODE_MAP_SIZE == 256
WordSize == 4

(* ------------------------------------------------- 32-bit word arithmetic *)
MinInt32 == -2147483647 - 1
MaxInt32 == 2147483647

Bytes == 0..255

\* The four bytes WriteWord stores for 'value', lowest byte first.
WordBytes(value) ==
    << value % 256,
       (value \div 256) % 256,
       (value \div 65536) % 256,
       (value \div 16777216) % 256 >>

\* The word ReadWord builds from four bytes, lowest byte first:
\* (int32_t)((b4 << 24) | (b3 << 16) | (b2 << 8) | b1).
WordOf(b) ==
    b[1] + 256 * b[2] + 65536 * b[3]
         + 16777216 * (IF b[4] >= 128 THEN b[4] - 256 ELSE b[4])

\* a + b in int32_t, wrapping.
Add32(a, b) ==
    LET x == WordBytes(a)
        y == WordBytes(b)
        c1 == x[1] + y[1]
        c2 == x[2] + y[2] + (c1 \div 256)
        c3 == x[3] + y[3] + (c2 \div 256)
        c4 == x[4] + y[4] + (c3 \div 256)
    IN  WordOf(<< c1 % 256, c2 % 256, c3 % 256, c4 % 256 >>)

\* -a in int32_t, wrapping (the negation of the least word is itself).
Neg32(a) == IF a = MinInt32 THEN a ELSE 0 - a

\* a - b in int32_t, wrapping.
Sub32(a, b) == Add32(a, Add32(WordOf(<<255 - WordBytes(b)[1], 255 - WordBytes(b)[2],
                                      255 - WordBytes(b)[3], 255 - WordBytes(b)[4]>>), 1))

\* a * b in int32_t, wrapping.
Mul32(a, b) ==
    LET x == WordBytes(a)
        y == WordBytes(b)
        c1 == x[1] * y[1]
        c2 == x[1] * y[2] + x[2] * y[1] + (c1 \div 256)
        c3 == x[1] * y[3] + x[2] * y[2] + x[3] * y[1] + (c2 \div 256)
        c4 == x[1] * y[4] + x[2] * y[3] + x[3] * y[2] + x[4] * y[1] + (c3 \div 256)
    IN  WordOf(<< c1 % 256, c2 % 256, c3 % 256, c4 % 256 >>)

Abs(a) == IF a < 0 THEN 0 - a ELSE a

\* a / b of C: the quotient truncated toward zero (b # 0, not MinInt32 / -1).
Div32(a, b) ==
    IF (a < 0) = (b < 0) THEN Abs(a) \div Abs(b) ELSE 0 - (Abs(a) \div Abs(b))

\* a % b of C: the remainder with the sign of a.
Mod32(a, b) == a - b * Div32(a, b)

\* Native division traps or is undefined for these operands.
DivisionUndefined(a, b) == b = 0 \/ (a = MinInt32 /\ b = -1)


(* ------------------------------------------------------- the opcode table *)
\* instructions[index + 1] is the descriptor at 'index' of the C array.
instructions ==
    << [opcode |-> 0,        size |-> 0, execute |-> "NULL"],
       [opcode |-> ADD,      size |-> 3, execute |-> "ExecuteAdd"],
       [opcode |-> NEG,      size |-> 2, execute |-> "ExecuteNeg"],
       [opcode |-> MUL,      size |-> 3, execute |-> "ExecuteMul"],
       [opcode |-> DIV,      size |-> 3, execute |-> "ExecuteDiv"],
       [opcode |-> MOD,      size |-> 3, execute |-> "ExecuteMod"],
       [opcode |-> CMP,      size |-> 3, execute |-> "ExecuteCmp"],
       [opcode |-> JA,       size |-> 5, execute |-> "ExecuteJumpIfAbove"],
       [opcode |-> JE,       size |-> 5, execute |-> "ExecuteJumpIfEqual"],
       [opcode |-> JB,       size |-> 5, execute |-> "ExecuteJumpIfBelow"],
       [opcode |-> JMP,      size |-> 5, execute |-> "ExecuteJump"],
       [opcode |-> CALL,     size |-> 5, execute |-> "ExecuteCall"],
       [opcode |-> RET,      size |-> 1, execute |-> "ExecuteRet"],
       [opcode |-> LOAD,     size |-> 6, execute |-> "ExecuteLoad"],
       [opcode |-> STORE,    size |-> 6, execute |-> "ExecuteStore"],
       [opcode |-> CONST,    size |-> 6, execute |-> "ExecuteConst"],
       [opcode |-> RLOAD,    size |-> 3, execute |-> "ExecuteRload"],
       [opcode |-> RSTORE,   size |-> 3, execute |-> "ExecuteRstore"],
       [opcode |-> HALT,     size |-> 1, execute |-> "ExecuteHalt"],
       [opcode |-> INT,      size |-> 2, execute |-> "ExecuteInterrupt"],
       [opcode |-> NOP,      size |-> 1, execute |-> "ExecuteNop"],
       [opcode |-> PUSH,     size |-> 2, execute |-> "ExecutePush"],
       [opcode |-> PUSH_ALL, size |-> 1, execute |-> "ExecutePushAll"],
       [opcode |-> POP,      size |-> 2, execute |-> "ExecutePop"],
       [opcode |-> POP_ALL,  size |-> 1, execute |-> "ExecutePopAll"],
       [opcode |-> LSP,      size |-> 2, execute |-> "ExecuteLSP"] >>

\* A size_t as its low and high 32-bit halves.
SizeT(n) == [lo |-> n, hi |-> 0]

\* The opcode map InitializeVM builds: zero everywhere, then one entry per
\* instruction, the instruction's index in 'instructions'.
InitialOpcodeMap ==
    [op \in 0..(OPCODE_MAP_SIZE - 1) |->
        IF \E i \in 2..Len(instructions) : instructions[i].opcode = op
        THEN SizeT((CHOOSE i \in 2..Len(instructions) : instructions[i].opcode = op) - 1)
        ELSE SizeT(0)]

\* The status register with every flag clear.
ZeroStatus ==
    [BAD_INSTRUCTION |-> 0, STACK_UNDERFLOW |-> 0, STACK_OVERFLOW |-> 0,
     INVALID_REGISTER_INDEX |-> 0, BAD_ACCESS |-> 0,
     COMPARISON_BELOW |-> 0, COMPARISON_EQUAL |-> 0, COMPARISON_ABOVE |-> 0]

\* The byte the eight one-bit fields of 'status' occupy, first field lowest.
StatusByte(s) ==
    s.BAD_INSTRUCTION + 2 * s.STACK_UNDERFLOW + 4 * s.STACK_OVERFLOW
    + 8 * s.INVALID_REGISTER_INDEX + 16 * s.BAD_ACCESS
    + 32 * s.COMPARISON_BELOW + 64 * s.COMPARISON_EQUAL + 128 * s.COMPARISON_ABOVE

StatusOfByte(b) ==
    [BAD_INSTRUCTION |-> b % 2, STACK_UNDERFLOW |-> (b \div 2) % 2,
     STACK_OVERFLOW |-> (b \div 4) % 2, INVALID_REGISTER_INDEX |-> (b \div 8) % 2,
     BAD_ACCESS |-> (b \div 16) % 2, COMPARISON_BELOW |-> (b \div 32) % 2,
     COMPARISON_EQUAL |-> (b \div 64) % 2, COMPARISON_ABOVE |-> (b \div 128) % 2]

\* memory_size += sizeof(int32_t) - (memory_size % sizeof(int32_t)).
RoundedUp(size) == size + (WordSize - (size % WordSize))

(* ------------------------------------------------------------------ state *)
VARIABLES
    memory,           \* vm->memory: the tape, a byte per address 0..memory_size-1
    memory_size,      \* vm->memory_size
    stack_limit,      \* vm->stack_limit
    registers,        \* vm->cpu.registers, indices 0..3
    program_counter,  \* vm->cpu.program_counter
    stack_pointer,    \* vm->cpu.stack_pointer
    status,           \* vm->cpu.status
    opcode_map,       \* vm->opcode_map
    mode,             \* RunVM: "RUNNING" in the loop, "HALTED" once it returned,
                      \* "UNDEFINED" once the run left the tape or the table
    last,             \* history: the rule of the latest step, and the opcode, the pc,
                      \* the sp and the intact pushed word at sp it found
    shadow,           \* history: the words written by PUSH, PUSH_ALL, CALL and STORE
                      \* that are still intact
    requested         \* history: the memory_size and stack_limit InitializeVM was
                      \* called with

vars ==
    << memory, memory_size, stack_limit, registers, program_counter,
       stack_pointer, status, opcode_map, mode, last, shadow, requested >>

FaultFlags ==
    {"BAD_INSTRUCTION", "STACK_UNDERFLOW", "STACK_OVERFLOW",
     "INVALID_REGISTER_INDEX", "BAD_ACCESS"}

ComparisonFlags == {"COMPARISON_BELOW", "COMPARISON_EQUAL", "COMPARISON_ABOVE"}

(* --------------------------------------------------- indeterminate values *)
\* The bytes a read outside the tape may find; one of them stands for all
\* the bytes of one access.
GarbageBytes == {0, 165}

\* The sizes an out-of-range index into 'instructions' may find.
WildSizes == {1, 6}

Indeterminate(defined) == IF defined THEN {0} ELSE GarbageBytes

(* --------------------------------------------------------------- the tape *)
ByteInTape(address) == address >= 0 /\ address <= memory_size - 1

WordInTape(address) == address >= 0 /\ address <= memory_size - WordSize

\* vm->memory[address + i], 'g' when it lies outside the tape.
ByteAt(mem, address, i, g) ==
    IF address >= 0 - i /\ address <= memory_size - 1 - i THEN mem[address + i] ELSE g

ReadWord(mem, address, g) ==
    WordOf(<< ByteAt(mem, address, 0, g), ByteAt(mem, address, 1, g),
              ByteAt(mem, address, 2, g), ByteAt(mem, address, 3, g) >>)

\* A faulty WriteWord that takes the bytes by division, which truncates
\* toward zero, instead of by mask and shift: C16 does not hold of it.
WriteWordByDivision(mem, address, value) ==
    [a \in DOMAIN mem |->
        IF address <= a /\ address >= a - 3
        THEN << value % 256,
                ((IF value < 0 THEN value + 255 ELSE value) \div 256) % 256,
                ((IF value < 0 THEN value + 65535 ELSE value) \div 65536) % 256,
                ((IF value < 0 THEN value + 16777215 ELSE value) \div 16777216) % 256
             >>[a - address + 1]
        ELSE mem[a]]

\* The tape after WriteWord(vm, address, value); bytes outside the tape are
\* not part of it.
WriteWord(mem, address, value) ==
    [a \in DOMAIN mem |->
        IF address <= a /\ address >= a - 3
        THEN WordBytes(value)[a - address + 1]
        ELSE mem[a]]

ReadByte(address, g) == ByteAt(memory, address, 0, g)

\* The bytes around the tape (allocator slack, neighbouring heap) that an
\* access may reach without a trap.
HeapSlack == 16

WordNearTape(address) ==
    address >= 0 - HeapSlack /\ address <= memory_size - WordSize + HeapSlack

\* Whether the word accesses at 'addresses' trap (the process is killed):
\* never inside the tape, always far outside it, either way around it.
Traps(addresses) ==
    IF \A a \in addresses : WordInTape(a) THEN {FALSE}
    ELSE IF \A a \in addresses : WordNearTape(a) THEN {FALSE, TRUE}
    ELSE {TRUE}

(* ---------------------------------------------------------- the programs *)
\* The bytes of one instruction.
Op1(opcode) == << opcode >>
Op2(opcode, a) == << opcode, a >>
Op3(opcode, a, b) == << opcode, a, b >>
Op5(opcode, word) == << opcode >> \o WordBytes(word)
Op6(opcode, a, word) == << opcode, a >> \o WordBytes(word)

\* The longest run of set-up instructions a program starts with.
MaxSetup == 2

\* The zero bytes that follow the code in a program file.
FilePad == 12

\* The instructions a program may start with.
SetupMenu ==
    { Op1(NOP), Op2(LSP, REG1), Op2(PUSH, REG1), Op1(PUSH_ALL),
      Op5(CALL, 6), Op6(CONST, REG2, 7), Op3(CMP, REG1, REG2), Op3(RLOAD, REG1, 5) }

\* The register operand pairs and single operands tried; 4, 5 and 6 are not
\* register indices.
OperandPairs == { <<REG1, REG2>>, <<REG2, REG1>>, <<4, REG1>>, <<REG1, 5>> }
Operands == { REG1, REG2, 4 }

\* The addresses and jump targets tried: inside the tape and outside it.
Addresses == { 0, 8, -4, 1000 }
Targets == { 0, 5, 1000 }

\* The instruction a program ends with: every instruction, with valid and
\* invalid operands, a byte that is no opcode, and an opcode whose operands
\* the file lacks.
FinalMenu ==
    { Op3(op, p[1], p[2]) : op \in {ADD, MUL, DIV, MOD, CMP, RLOAD, RSTORE}, p \in OperandPairs }
    \cup { Op3(RLOAD, REG1, r) : r \in {4, 6, 8} }
    \cup { Op2(op, r) : op \in {NEG, PUSH, POP, LSP}, r \in Operands }
    \cup { Op6(op, r, a) : op \in {LOAD, STORE}, r \in {REG1, 4}, a \in Addresses }
    \cup { Op6(CONST, r, v) : r \in {REG1, 4}, v \in {7, -2} }
    \cup { Op5(op, t) : op \in {JA, JE, JB, JMP, CALL}, t \in Targets }
    \cup { Op1(op) : op \in {RET, HALT, NOP, PUSH_ALL, POP_ALL, 255} }
    \cup { Op2(INT, n) : n \in {INTERRUPT_PRINT_INTEGER, INTERRUPT_PRINT_STRING, 3} }
    \cup { Op1(op) : op \in {JA, JE, JB, JMP, CALL, LOAD, STORE, CONST} }

\* The sequences of at most n set-up instructions.
RECURSIVE Setups(_)
Setups(n) ==
    IF n = 0 THEN { << >> }
    ELSE Setups(n - 1) \cup { s \o i : s \in Setups(n - 1), i \in SetupMenu }

Zeros(n) == [i \in 1..n |-> 0]

\* The opcodes of the instructions with operands.
OperandOpcodes ==
    { instructions[i].opcode : i \in { j \in 2..Len(instructions) : instructions[j].size > 1 } }

\* Programs that push a word whose highest byte is an opcode and jump to
\* that byte, the last of the tape.
JumpsToLastByte ==
    { LET code == Op6(CONST, REG1, op * 16777216) \o Op2(PUSH, REG1)
      IN  code \o Op5(JMP, RoundedUp(2 * (Len(code) + 5)) - 1) : op \in OperandOpcodes }

\* The register values compared: negative, zero and positive.
CompareValues == { -2, 0, 7 }

\* Programs that load two registers, compare them and branch past the code.
ComparesAndJumps ==
    { LET code == Op6(CONST, REG1, v) \o Op6(CONST, REG2, w) \o Op3(CMP, REG1, REG2)
      IN  code \o Op5(j, Len(code) + 6) : v \in CompareValues, w \in CompareValues,
                                          j \in {JA, JE, JB} }

\* A program that loads, through register index 6, the data byte 255 that
\* follows its code.
LoadsStatusByte ==
    { LET length == Len(Op6(CONST, REG1, 0) \o Op3(RLOAD, REG1, 6))
      IN  Op6(CONST, REG1, length) \o Op3(RLOAD, REG1, 6) \o << 255 >> }

\* Programs that load two registers and add every pair of registers.
AddsEveryPair ==
    { Op6(CONST, REG1, 7) \o Op6(CONST, REG3, -2) \o Op3(ADD, a, b) :
        a \in 0..(N_REGISTERS - 1), b \in 0..(N_REGISTERS - 1) }

\* A program that saves the registers, overwrites two of them and restores
\* them all.
SavesAndRestores ==
    { Op6(CONST, REG2, 7) \o Op2(LSP, REG1) \o Op1(PUSH_ALL)
      \o Op6(CONST, REG2, -2) \o Op2(LSP, REG1) \o Op1(POP_ALL) }

\* Programs that store 7 through an address register that points into the
\* data behind the program, or at the RSTORE instruction itself.
StoresThroughRegister ==
    { Op6(CONST, REG1, 7) \o Op6(CONST, REG2, a) \o Op3(RSTORE, REG1, REG2)
        : a \in {10, 12, 13, 16, 20} }

\* Programs that divide, or take the remainder of, two registers holding
\* positive and negative values, in both operand orders and on one register.
DivisionValues == { -7, -2, 3, 7 }

DividesEveryPair ==
    { Op6(CONST, REG1, v) \o Op6(CONST, REG2, w) \o Op3(op, p[1], p[2])
        : v \in DivisionValues, w \in DivisionValues, op \in {DIV, MOD},
          p \in { <<REG1, REG2>>, <<REG2, REG1>>, <<REG2, REG2>> } }

\* A program without a jump that loads the word -3 behind it through the
\* data index 4.
LoadsProgramCounter ==
    { Op6(CONST, REG1, 9) \o Op3(RLOAD, REG1, N_REGISTERS) \o WordBytes(-3) }

\* Programs that store a register at an address and load another register
\* from it: behind the code, over the CONST, over the STORE's own operand
\* and over the LOAD.
StoresAndLoads ==
    { Op6(CONST, REG1, v) \o Op6(STORE, REG1, a) \o Op6(LOAD, REG2, a)
        : v \in {7, -2}, a \in {0, 8, 14, 20, 21} }

\* The program files: a set-up, one final instruction, and data bytes; and
\* the programs written out above.
Files ==
    { s \o f \o Zeros(pad) : s \in Setups(MaxSetup), f \in FinalMenu, pad \in {0, FilePad} }
    \cup JumpsToLastByte
    \cup ComparesAndJumps
    \cup LoadsStatusByte
    \cup AddsEveryPair
    \cup SavesAndRestores
    \cup StoresThroughRegister
    \cup DividesEveryPair
    \cup LoadsProgramCounter
    \cup StoresAndLoads

(* ------------------------------------------------------------ InitializeVM *)
\* main: InitializeVM(&vm, 2 * file_size, file_size), then fread of the file
\* to the start of the zeroed tape.
Loaded(file) ==
    /\ memory_size = RoundedUp(2 * Len(file))
    /\ stack_limit = RoundedUp(Len(file))
    /\ memory = [a \in 0..(RoundedUp(2 * Len(file)) - 1) |->
                    IF a < Len(file) THEN file[a + 1] ELSE 0]
    /\ program_counter = 0
    /\ stack_pointer = RoundedUp(2 * Len(file))
    /\ status = ZeroStatus
    /\ registers = [r \in 0..(N_REGISTERS - 1) |-> 0]
    /\ opcode_map = InitialOpcodeMap
    /\ mode = "RUNNING"
    /\ last = [rule |-> "InitializeVM", opcode |-> 0, pc |-> 0, sp |-> 0, tags |-> {}]
    /\ shadow = {}
    /\ requested = [memory_size |-> 2 * Len(file), stack_limit |-> Len(file)]

Init == \E file \in Files : Loaded(file)

(* ------------------------------------------------------ steps of the loop *)
\* The machine as one record, and the records a rule may leave.
Cur ==
    [memory |-> memory, registers |-> registers, pc |-> program_counter,
     sp |-> stack_pointer, status |-> status, opcode_map |-> opcode_map,
     mode |-> mode]

\* The rule returns 'halt' to RunVM.
Return(s, halt) == [s EXCEPT !.mode = IF halt THEN "HALTED" ELSE "RUNNING"]

SetFlag(s, flag) == [s EXCEPT !.status[flag] = 1]

\* The access trapped, or control left the instruction table.
Undefined == [Cur EXCEPT !.mode = "UNDEFINED"]

\* RunVM has a program counter inside the tape.
Fetch == mode = "RUNNING" /\ program_counter >= 0 /\ program_counter < memory_size

\* One step of RunVM's loop by 'rule', leaving the machine as 's'; 'tags'
\* are the words the step pushed.
Step(rule, s, tags) ==
    /\ memory' = s.memory
    /\ registers' = s.registers
    /\ program_counter' = s.pc
    /\ stack_pointer' = s.sp
    /\ status' = s.status
    /\ opcode_map' = s.opcode_map
    /\ mode' = s.mode
    /\ UNCHANGED << memory_size, stack_limit, requested >>
    /\ last' = [rule |-> rule,
                opcode |-> IF Fetch THEN memory[program_counter] ELSE 0,
                pc |-> program_counter,
                sp |-> stack_pointer,
                tags |-> { e \in shadow : e.addr = stack_pointer }]
    /\ shadow' = { e \in shadow :
                     /\ \A t \in tags : t.addr # e.addr
                     /\ \A i \in 0..3 : s.memory[e.addr + i] = memory[e.addr + i] }
                 \cup tags

\* size_t index = vm->opcode_map[opcode].
FetchedIndex == opcode_map[memory[program_counter]]

\* RunVM calls instructions[index].execute.
Dispatched(index) == Fetch /\ FetchedIndex = SizeT(index)

GetInstructionLength(map, opcode) ==
    IF map[opcode].hi = 0 /\ map[opcode].lo >= 0 /\ map[opcode].lo < Len(instructions)
    THEN { instructions[map[opcode].lo + 1].size }
    ELSE WildSizes

\* A faulty length check that lets an instruction run one byte past the
\* tape: C11 does not hold of it.
InstructionFitsButOne(length) == program_counter + length - 1 <= memory_size

InstructionFitsInMemory(length) == program_counter + length <= memory_size

IsValidRegisterIndex(byte) == byte \in {REG1, REG2, REG3, REG4}

StackIsEmpty == stack_pointer >= memory_size

StackIsFull == stack_pointer <= stack_limit

GetAvailableStackSize == Sub32(stack_pointer, stack_limit)

GetOccupiedStackSize == Sub32(memory_size, stack_pointer)

\* The int32_t 'n' compared as a size_t: a negative n is a huge size.
AtLeastAsSizeT(n, size) == n < 0 \/ n >= size

CanPerformMultipush == AtLeastAsSizeT(GetAvailableStackSize, WordSize * N_REGISTERS)

CanPerformMultipop == AtLeastAsSizeT(GetOccupiedStackSize, WordSize * N_REGISTERS)

\* The garbage an operand byte at program_counter + offset may be.
OperandGarbage(offset) == Indeterminate(ByteInTape(program_counter + offset))

(* --------------------------------------------- RunVM's own halting steps *)
\* program_counter < 0 || program_counter >= vm->memory_size.
RunVMBadAccess ==
    /\ mode = "RUNNING"
    /\ ~(program_counter >= 0 /\ program_counter < memory_size)
    /\ Step("RunVM", Return(SetFlag(Cur, "BAD_ACCESS"), TRUE), {})

\* A faulty loop that steps over the opcode it rejects: C10 does not hold
\* of it.
RunVMSkipsBadInstruction ==
    /\ Fetch
    /\ FetchedIndex = SizeT(0)
    /\ Step("RunVM", Return([SetFlag(Cur, "BAD_INSTRUCTION") EXCEPT !.pc = Add32(@, 1)], TRUE), {})

\* index == 0: the opcode has no instruction.
RunVMBadInstruction ==
    /\ Fetch
    /\ FetchedIndex = SizeT(0)
    /\ Step("RunVM", Return(SetFlag(Cur, "BAD_INSTRUCTION"), TRUE), {})

\* The index lies outside 'instructions': the call goes through whatever
\* follows the table.
RunVMWildIndex ==
    /\ Fetch
    /\ ~(FetchedIndex.hi = 0 /\ FetchedIndex.lo >= 0 /\ FetchedIndex.lo < Len(instructions))
    /\ Step("RunVM", Undefined, {})

(* ------------------------------------------------------------- arithmetic *)
\* A faulty ADD that takes the first operand byte for the target: C15 does
\* not hold of it.
ExecuteAddIntoFirst ==
    /\ Dispatched(1)
    /\ \E length \in GetInstructionLength(opcode_map, ADD), g \in OperandGarbage(2) :
        LET target_register_index == ReadByte(program_counter + 1, g)
            source_register_index == ReadByte(program_counter + 2, g)
        IN  IF ~InstructionFitsInMemory(length)
            THEN Step("ExecuteAdd", Return(SetFlag(Cur, "BAD_ACCESS"), TRUE), {})
            ELSE IF ~IsValidRegisterIndex(source_register_index)
                    \/ ~IsValidRegisterIndex(target_register_index)
            THEN Step("ExecuteAdd", Return(SetFlag(Cur, "INVALID_REGISTER_INDEX"), TRUE), {})
            ELSE Step("ExecuteAdd",
                      Return([Cur EXCEPT
                                !.registers[target_register_index] =
                                    Add32(@, registers[source_register_index]),
                                !.pc = Add32(@, length)], FALSE), {})

ExecuteAdd ==
    /\ Dispatched(1)
    /\ \E length \in GetInstructionLength(opcode_map, ADD), g \in OperandGarbage(2) :
        LET source_register_index == ReadByte(program_counter + 1, g)
            target_register_index == ReadByte(program_counter + 2, g)
        IN  IF ~InstructionFitsInMemory(length)
            THEN Step("ExecuteAdd", Return(SetFlag(Cur, "BAD_ACCESS"), TRUE), {})
            ELSE IF ~IsValidRegisterIndex(source_register_index)
                    \/ ~IsValidRegisterIndex(target_register_index)
            THEN Step("ExecuteAdd", Return(SetFlag(Cur, "INVALID_REGISTER_INDEX"), TRUE), {})
            ELSE Step("ExecuteAdd",
                      Return([Cur EXCEPT
                                !.registers[target_register_index] =
                                    Add32(@, registers[source_register_index]),
                                !.pc = Add32(@, length)], FALSE), {})

ExecuteNeg ==
    /\ Dispatched(2)
    /\ \E length \in GetInstructionLength(opcode_map, NEG), g \in OperandGarbage(1) :
        LET register_index == ReadByte(program_counter + 1, g)
        IN  IF ~InstructionFitsInMemory(length)
            THEN Step("ExecuteNeg", Return(SetFlag(Cur, "BAD_ACCESS"), TRUE), {})
            ELSE IF ~IsValidRegisterIndex(register_index)
            THEN Step("ExecuteNeg", Return(SetFlag(Cur, "INVALID_REGISTER_INDEX"), TRUE), {})
            ELSE Step("ExecuteNeg",
                      Return([Cur EXCEPT
                                !.registers[register_index] = Neg32(@),
                                !.pc = Add32(@, length)], FALSE), {})

ExecuteMul ==
    /\ Dispatched(3)
    /\ \E length \in GetInstructionLength(opcode_map, MUL), g \in OperandGarbage(2) :
        LET source_register_index == ReadByte(program_counter + 1, g)
            target_register_index == ReadByte(program_counter + 2, g)
        IN  IF ~InstructionFitsInMemory(length)
            THEN Step("ExecuteMul", Return(SetFlag(Cur, "BAD_ACCESS"), TRUE), {})
            ELSE IF ~IsValidRegisterIndex(source_register_index)
                    \/ ~IsValidRegisterIndex(target_register_index)
            THEN Step("ExecuteMul", Return(SetFlag(Cur, "INVALID_REGISTER_INDEX"), TRUE), {})
            ELSE Step("ExecuteMul",
                      Return([Cur EXCEPT
                                !.registers[target_register_index] =
                                    Mul32(@, registers[source_register_index]),
                                !.pc = Add32(@, length)], FALSE), {})

\* A division the hardware does not define traps, or yields 'otherwise'.
DivisionOutcomes(a, b, defined, otherwise) ==
    IF DivisionUndefined(a, b)
    THEN { [trap |-> TRUE, value |-> 0], [trap |-> FALSE, value |-> otherwise] }
    ELSE { [trap |-> FALSE, value |-> defined] }

ExecuteDiv ==
    /\ Dispatched(4)
    /\ \E length \in GetInstructionLength(opcode_map, DIV), g \in OperandGarbage(2) :
        LET source_register_index == ReadByte(program_counter + 1, g)
            target_register_index == ReadByte(program_counter + 2, g)
        IN  IF ~InstructionFitsInMemory(length)
            THEN Step("ExecuteDiv", Return(SetFlag(Cur, "BAD_ACCESS"), TRUE), {})
            ELSE IF ~IsValidRegisterIndex(source_register_index)
                    \/ ~IsValidRegisterIndex(target_register_index)
            THEN Step("ExecuteDiv", Return(SetFlag(Cur, "INVALID_REGISTER_INDEX"), TRUE), {})
            ELSE LET t == registers[target_register_index]
                     d == registers[source_register_index]
                 IN  \E q \in DivisionOutcomes(t, d, Div32(t, d), IF d = 0 THEN 0 ELSE t) :
                        IF q.trap
                        THEN Step("ExecuteDiv", Undefined, {})
                        ELSE Step("ExecuteDiv",
                                  Return([Cur EXCEPT
                                            !.registers[target_register_index] = q.value,
                                            !.pc = Add32(@, length)], FALSE), {})

\* A MOD that divides the target by the source, as DIV does: C23 does not
\* hold of it.
ExecuteModOfTarget ==
    /\ Dispatched(5)
    /\ \E length \in GetInstructionLength(opcode_map, MOD), g \in OperandGarbage(2) :
        LET source_register_index == ReadByte(program_counter + 1, g)
            target_register_index == ReadByte(program_counter + 2, g)
        IN  IF ~InstructionFitsInMemory(length)
            THEN Step("ExecuteMod", Return(SetFlag(Cur, "BAD_ACCESS"), TRUE), {})
            ELSE IF ~IsValidRegisterIndex(source_register_index)
                    \/ ~IsValidRegisterIndex(target_register_index)
            THEN Step("ExecuteMod", Return(SetFlag(Cur, "INVALID_REGISTER_INDEX"), TRUE), {})
            ELSE LET n == registers[target_register_index]
                     d == registers[source_register_index]
                 IN  \E q \in DivisionOutcomes(n, d, Mod32(n, d), IF d = 0 THEN n ELSE 0) :
                        IF q.trap
                        THEN Step("ExecuteMod", Undefined, {})
                        ELSE Step("ExecuteMod",
                                  Return([Cur EXCEPT
                                            !.registers[target_register_index] = q.value,
                                            !.pc = Add32(@, length)], FALSE), {})

ExecuteMod ==
    /\ Dispatched(5)
    /\ \E length \in GetInstructionLength(opcode_map, MOD), g \in OperandGarbage(2) :
        LET source_register_index == ReadByte(program_counter + 1, g)
            target_register_index == ReadByte(program_counter + 2, g)
        IN  IF ~InstructionFitsInMemory(length)
            THEN Step("ExecuteMod", Return(SetFlag(Cur, "BAD_ACCESS"), TRUE), {})
            ELSE IF ~IsValidRegisterIndex(source_register_index)
                    \/ ~IsValidRegisterIndex(target_register_index)
            THEN Step("ExecuteMod", Return(SetFlag(Cur, "INVALID_REGISTER_INDEX"), TRUE), {})
            ELSE LET n == registers[source_register_index]
                     d == registers[target_register_index]
                 IN  \E q \in DivisionOutcomes(n, d, Mod32(n, d), IF d = 0 THEN n ELSE 0) :
                        IF q.trap
                        THEN Step("ExecuteMod", Undefined, {})
                        ELSE Step("ExecuteMod",
                                  Return([Cur EXCEPT
                                            !.registers[target_register_index] = q.value,
                                            !.pc = Add32(@, length)], FALSE), {})

(* ------------------------------------------------- comparison and branches *)
\* A faulty CMP that compares the registers as unsigned words: C12 does not
\* hold of it.
ExecuteCmpUnsigned ==
    /\ Dispatched(6)
    /\ \E length \in GetInstructionLength(opcode_map, CMP), g \in OperandGarbage(2) :
        LET register_index_1 == ReadByte(program_counter + 1, g)
            register_index_2 == ReadByte(program_counter + 2, g)
            register_1 == registers[register_index_1]
            register_2 == registers[register_index_2]
            below == IF (register_1 < 0) = (register_2 < 0)
                     THEN register_1 < register_2 ELSE register_2 < 0
        IN  IF ~InstructionFitsInMemory(length)
            THEN Step("ExecuteCmp", Return(SetFlag(Cur, "BAD_ACCESS"), TRUE), {})
            ELSE IF ~IsValidRegisterIndex(register_index_1)
                    \/ ~IsValidRegisterIndex(register_index_2)
            THEN Step("ExecuteCmp", Return(SetFlag(Cur, "INVALID_REGISTER_INDEX"), TRUE), {})
            ELSE Step("ExecuteCmp",
                      Return([Cur EXCEPT
                                !.status.COMPARISON_ABOVE =
                                    IF ~below /\ register_1 # register_2 THEN 1 ELSE 0,
                                !.status.COMPARISON_EQUAL = IF register_1 = register_2 THEN 1 ELSE 0,
                                !.status.COMPARISON_BELOW = IF below THEN 1 ELSE 0,
                                !.pc = Add32(@, length)], FALSE), {})

ExecuteCmp ==
    /\ Dispatched(6)
    /\ \E length \in GetInstructionLength(opcode_map, CMP), g \in OperandGarbage(2) :
        LET register_index_1 == ReadByte(program_counter + 1, g)
            register_index_2 == ReadByte(program_counter + 2, g)
            register_1 == registers[register_index_1]
            register_2 == registers[register_index_2]
        IN  IF ~InstructionFitsInMemory(length)
            THEN Step("ExecuteCmp", Return(SetFlag(Cur, "BAD_ACCESS"), TRUE), {})
            ELSE IF ~IsValidRegisterIndex(register_index_1)
                    \/ ~IsValidRegisterIndex(register_index_2)
            THEN Step("ExecuteCmp", Return(SetFlag(Cur, "INVALID_REGISTER_INDEX"), TRUE), {})
            ELSE Step("ExecuteCmp",
                      Return([Cur EXCEPT
                                !.status.COMPARISON_ABOVE = IF register_1 > register_2 THEN 1 ELSE 0,
                                !.status.COMPARISON_EQUAL = IF register_1 = register_2 THEN 1 ELSE 0,
                                !.status.COMPARISON_BELOW = IF register_1 < register_2 THEN 1 ELSE 0,
                                !.pc = Add32(@, length)], FALSE), {})

\* The rule shared by JA, JE and JB: jump to the embedded address when
\* 'flag' is set, fall through otherwise.
JumpIf(rule, opcode, flag) ==
    \E length \in GetInstructionLength(opcode_map, opcode), g \in OperandGarbage(4) :
        IF ~InstructionFitsInMemory(length)
        THEN Step(rule, Return(SetFlag(Cur, "BAD_ACCESS"), TRUE), {})
        ELSE IF status[flag] = 1
        THEN Step(rule, Return([Cur EXCEPT !.pc = ReadWord(memory, program_counter + 1, g)],
                               FALSE), {})
        ELSE Step(rule, Return([Cur EXCEPT !.pc = Add32(@, length)], FALSE), {})

ExecuteJumpIfAbove == Dispatched(7) /\ JumpIf("ExecuteJumpIfAbove", JA, "COMPARISON_ABOVE")

ExecuteJumpIfEqual == Dispatched(8) /\ JumpIf("ExecuteJumpIfEqual", JE, "COMPARISON_EQUAL")

ExecuteJumpIfBelow == Dispatched(9) /\ JumpIf("ExecuteJumpIfBelow", JB, "COMPARISON_BELOW")

ExecuteJump ==
    /\ Dispatched(10)
    /\ \E length \in GetInstructionLength(opcode_map, JMP), g \in OperandGarbage(4) :
        IF ~InstructionFitsInMemory(length)
        THEN Step("ExecuteJump", Return(SetFlag(Cur, "BAD_ACCESS"), TRUE), {})
        ELSE Step("ExecuteJump",
                  Return([Cur EXCEPT !.pc = ReadWord(memory, program_counter + 1, g)],
                         FALSE), {})

(* ------------------------------------------------------------ subroutines *)
\* A faulty PopVM, reading one word above the stack pointer as ExecutePop
\* does: C3 does not hold of a machine that returns through it.
PopVMReadsAbove(s, g) ==
    IF s.sp >= memory_size
    THEN [vm |-> SetFlag(s, "BAD_ACCESS"), word |-> 0]
    ELSE [vm |-> [s EXCEPT !.sp = Add32(@, 4)],
          word |-> ReadWord(s.memory, Add32(s.sp, 4), g)]

\* PopVM on machine 's': the word at the stack pointer, which then moves up.
PopVM(s, g) ==
    IF s.sp >= memory_size
    THEN [vm |-> SetFlag(s, "BAD_ACCESS"), word |-> 0]
    ELSE [vm |-> [s EXCEPT !.sp = Add32(@, 4)], word |-> ReadWord(s.memory, s.sp, g)]

\* PushVM on machine 's': the stack pointer moves down, then the word is
\* written there.
PushVM(s, value) ==
    [s EXCEPT !.sp = Sub32(@, 4), !.memory = WriteWord(@, Sub32(s.sp, 4), value)]

\* A word a PUSH, PUSH_ALL, CALL or STORE at 'site' wrote at 'addr', with
\* the stack pointer it found.
Pushed(rule, addr, value) ==
    IF WordInTape(addr)
    THEN { [addr |-> addr, rule |-> rule, opcode |-> memory[program_counter],
            value |-> value, site |-> program_counter, sp0 |-> stack_pointer] }
    ELSE {}

ExecuteCall ==
    /\ Dispatched(11)
    /\ \E length \in GetInstructionLength(opcode_map, CALL), g \in OperandGarbage(4) :
        LET address == ReadWord(memory, program_counter + 1, g)
            top == Sub32(stack_pointer, 4)
            return_address == Add32(program_counter, length)
        IN  IF ~InstructionFitsInMemory(length)
            THEN Step("ExecuteCall", Return(SetFlag(Cur, "BAD_ACCESS"), TRUE), {})
            ELSE IF GetAvailableStackSize < 4
            THEN Step("ExecuteCall", Return(SetFlag(Cur, "STACK_OVERFLOW"), TRUE), {})
            ELSE \E trap \in Traps({top}) :
                    IF trap
                    THEN Step("ExecuteCall", Undefined, {})
                    ELSE Step("ExecuteCall",
                              Return([PushVM(Cur, return_address) EXCEPT !.pc = address],
                                     FALSE),
                              Pushed("ExecuteCall", top, return_address))

ExecuteRet ==
    /\ Dispatched(12)
    /\ \E length \in GetInstructionLength(opcode_map, RET) :
        IF ~InstructionFitsInMemory(length)
        THEN Step("ExecuteRet", Return(SetFlag(Cur, "BAD_ACCESS"), TRUE), {})
        ELSE IF StackIsEmpty
        THEN Step("ExecuteRet", Return(SetFlag(Cur, "STACK_UNDERFLOW"), TRUE), {})
        ELSE \E g \in Indeterminate(WordInTape(stack_pointer)),
                trap \in Traps({stack_pointer}) :
                IF trap
                THEN Step("ExecuteRet", Undefined, {})
                ELSE Step("ExecuteRet",
                          Return([PopVM(Cur, g).vm EXCEPT !.pc = PopVM(Cur, g).word],
                                 FALSE), {})

(* ---------------------------------------------------------- data movement *)
\* A faulty LOAD that reads one word above the address, as ExecutePop does
\* above the stack pointer: C26 does not hold of it.
ExecuteLoadReadsAbove ==
    /\ Dispatched(13)
    /\ \E length \in GetInstructionLength(opcode_map, LOAD), g \in OperandGarbage(5) :
        LET register_index == ReadByte(program_counter + 1, g)
            address == Add32(ReadWord(memory, program_counter + 2, g), 4)
        IN  IF ~InstructionFitsInMemory(length)
            THEN Step("ExecuteLoad", Return(SetFlag(Cur, "BAD_ACCESS"), TRUE), {})
            ELSE IF ~IsValidRegisterIndex(register_index)
            THEN Step("ExecuteLoad", Return(SetFlag(Cur, "INVALID_REGISTER_INDEX"), TRUE), {})
            ELSE \E h \in Indeterminate(WordInTape(address)),
                    trap \in Traps({address}) :
                    IF trap
                    THEN Step("ExecuteLoad", Undefined, {})
                    ELSE Step("ExecuteLoad",
                              Return([Cur EXCEPT
                                        !.registers[register_index] =
                                            ReadWord(memory, address, h),
                                        !.pc = Add32(@, length)], FALSE), {})

ExecuteLoad ==
    /\ Dispatched(13)
    /\ \E length \in GetInstructionLength(opcode_map, LOAD), g \in OperandGarbage(5) :
        LET register_index == ReadByte(program_counter + 1, g)
            address == ReadWord(memory, program_counter + 2, g)
        IN  IF ~InstructionFitsInMemory(length)
            THEN Step("ExecuteLoad", Return(SetFlag(Cur, "BAD_ACCESS"), TRUE), {})
            ELSE IF ~IsValidRegisterIndex(register_index)
            THEN Step("ExecuteLoad", Return(SetFlag(Cur, "INVALID_REGISTER_INDEX"), TRUE), {})
            ELSE \E h \in Indeterminate(WordInTape(address)),
                    trap \in Traps({address}) :
                    IF trap
                    THEN Step("ExecuteLoad", Undefined, {})
                    ELSE Step("ExecuteLoad",
                              Return([Cur EXCEPT
                                        !.registers[register_index] =
                                            ReadWord(memory, address, h),
                                        !.pc = Add32(@, length)], FALSE), {})

ExecuteStore ==
    /\ Dispatched(14)
    /\ \E length \in GetInstructionLength(opcode_map, STORE), g \in OperandGarbage(5) :
        LET register_index == ReadByte(program_counter + 1, g)
            address == ReadWord(memory, program_counter + 2, g)
        IN  IF ~InstructionFitsInMemory(length)
            THEN Step("ExecuteStore", Return(SetFlag(Cur, "BAD_ACCESS"), TRUE), {})
            ELSE IF ~IsValidRegisterIndex(register_index)
            THEN Step("ExecuteStore", Return(SetFlag(Cur, "INVALID_REGISTER_INDEX"), TRUE), {})
            ELSE \E trap \in Traps({address}) :
                    IF trap
                    THEN Step("ExecuteStore", Undefined, {})
                    ELSE Step("ExecuteStore",
                              Return([Cur EXCEPT
                                        !.memory = WriteWord(@, address, registers[register_index]),
                                        !.pc = Add32(@, length)], FALSE),
                              Pushed("ExecuteStore", address, registers[register_index]))

ExecuteConst ==
    /\ Dispatched(15)
    /\ \E length \in GetInstructionLength(opcode_map, CONST), g \in OperandGarbage(5) :
        LET register_index == ReadByte(program_counter + 1, g)
            datum == ReadWord(memory, program_counter + 2, g)
        IN  IF ~InstructionFitsInMemory(length)
            THEN Step("ExecuteConst", Return(SetFlag(Cur, "BAD_ACCESS"), TRUE), {})
            ELSE IF ~IsValidRegisterIndex(register_index)
            THEN Step("ExecuteConst", Return(SetFlag(Cur, "INVALID_REGISTER_INDEX"), TRUE), {})
            ELSE Step("ExecuteConst",
                      Return([Cur EXCEPT
                                !.registers[register_index] = datum,
                                !.pc = Add32(@, length)], FALSE), {})

\* vm->cpu.registers[k] for any byte k, by the layout of VM_CPU and TOYVM:
\* the program counter, the stack pointer, the status byte and its padding,
\* and the halves of the opcode map follow the four registers.
RegisterSlot(s, k, g) ==
    IF k < N_REGISTERS THEN s.registers[k]
    ELSE IF k = N_REGISTERS THEN s.pc
    ELSE IF k = N_REGISTERS + 1 THEN s.sp
    ELSE IF k = N_REGISTERS + 2 THEN WordOf(<< StatusByte(s.status), g, g, g >>)
    ELSE IF k = N_REGISTERS + 3 THEN WordOf(<< g, g, g, g >>)
    ELSE IF (k - (N_REGISTERS + 4)) % 2 = 0
         THEN s.opcode_map[(k - (N_REGISTERS + 4)) \div 2].lo
         ELSE s.opcode_map[(k - (N_REGISTERS + 4)) \div 2].hi

\* The machine after vm->cpu.registers[k] = value, by the same layout.
StoreRegisterSlot(s, k, value) ==
    IF k < N_REGISTERS THEN [s EXCEPT !.registers[k] = value]
    ELSE IF k = N_REGISTERS THEN [s EXCEPT !.pc = value]
    ELSE IF k = N_REGISTERS + 1 THEN [s EXCEPT !.sp = value]
    ELSE IF k = N_REGISTERS + 2 THEN [s EXCEPT !.status = StatusOfByte(WordBytes(value)[1])]
    ELSE IF k = N_REGISTERS + 3 THEN s
    ELSE IF (k - (N_REGISTERS + 4)) % 2 = 0
         THEN [s EXCEPT !.opcode_map[(k - (N_REGISTERS + 4)) \div 2].lo = value]
         ELSE [s EXCEPT !.opcode_map[(k - (N_REGISTERS + 4)) \div 2].hi = value]

\* The ways a build orders the store through an invalid index with the
\* rule's own updates of the status byte and the program counter: the store
\* as written, or the rule's update last.
RloadOrders(data_register_index) ==
    IF data_register_index \in {N_REGISTERS, N_REGISTERS + 2}
    THEN {"store", "update"}
    ELSE {"store"}

\* A corrected RLOAD that halts on an invalid register index as the other
\* rules do: C22 does not hold of it.
ExecuteRloadHalts ==
    /\ Dispatched(16)
    /\ \E length \in GetInstructionLength(opcode_map, RLOAD), g \in OperandGarbage(2) :
        LET address_register_index == ReadByte(program_counter + 1, g)
            data_register_index == ReadByte(program_counter + 2, g)
            invalid == ~IsValidRegisterIndex(address_register_index)
                       \/ ~IsValidRegisterIndex(data_register_index)
        IN  IF ~InstructionFitsInMemory(length)
            THEN Step("ExecuteRload", Return(SetFlag(Cur, "BAD_ACCESS"), TRUE), {})
            ELSE IF invalid
            THEN Step("ExecuteRload", Return(SetFlag(Cur, "INVALID_REGISTER_INDEX"), TRUE), {})
            ELSE LET address == registers[address_register_index]
                 IN  \E h \in Indeterminate(WordInTape(address)),
                        trap \in Traps({address}) :
                        IF trap
                        THEN Step("ExecuteRload", Undefined, {})
                        ELSE Step("ExecuteRload",
                                  Return([Cur EXCEPT
                                            !.registers[data_register_index] =
                                                ReadWord(memory, address, h),
                                            !.pc = Add32(@, length)], FALSE), {})

ExecuteRload ==
    /\ Dispatched(16)
    /\ \E length \in GetInstructionLength(opcode_map, RLOAD), g \in OperandGarbage(2) :
        LET address_register_index == ReadByte(program_counter + 1, g)
            data_register_index == ReadByte(program_counter + 2, g)
            invalid == ~IsValidRegisterIndex(address_register_index)
                       \/ ~IsValidRegisterIndex(data_register_index)
            flagged == IF invalid THEN SetFlag(Cur, "INVALID_REGISTER_INDEX") ELSE Cur
        IN  IF ~InstructionFitsInMemory(length)
            THEN Step("ExecuteRload", Return(SetFlag(Cur, "BAD_ACCESS"), TRUE), {})
            ELSE \E p \in Indeterminate(address_register_index
                                          \notin {N_REGISTERS + 2, N_REGISTERS + 3}) :
                 LET address == RegisterSlot(flagged, address_register_index, p)
                 IN  \E h \in Indeterminate(WordInTape(address)),
                        trap \in Traps({address}),
                        order \in RloadOrders(data_register_index) :
                     LET stored == StoreRegisterSlot(flagged, data_register_index,
                                                     ReadWord(memory, address, h))
                         kept == IF order = "store" THEN stored
                                 ELSE [stored EXCEPT
                                         !.pc = program_counter,
                                         !.status.INVALID_REGISTER_INDEX = 1]
                     IN  IF trap
                         THEN Step("ExecuteRload", Undefined, {})
                         ELSE \E advance \in GetInstructionLength(kept.opcode_map, RLOAD) :
                                Step("ExecuteRload",
                                     Return([kept EXCEPT !.pc = Add32(@, advance)], FALSE), {})

\* A corrected RSTORE that steps over its three bytes: C21 does not hold
\* of it.
ExecuteRstoreAdvances ==
    /\ Dispatched(17)
    /\ \E length \in GetInstructionLength(opcode_map, RSTORE), g \in OperandGarbage(2) :
        LET source_register_index == ReadByte(program_counter + 1, g)
            address_register_index == ReadByte(program_counter + 2, g)
            address == registers[address_register_index]
        IN  IF ~InstructionFitsInMemory(length)
            THEN Step("ExecuteRstore", Return(SetFlag(Cur, "BAD_ACCESS"), TRUE), {})
            ELSE IF ~IsValidRegisterIndex(source_register_index)
                    \/ ~IsValidRegisterIndex(address_register_index)
            THEN Step("ExecuteRstore", Return(SetFlag(Cur, "BAD_ACCESS"), TRUE), {})
            ELSE \E trap \in Traps({address}) :
                    IF trap
                    THEN Step("ExecuteRstore", Undefined, {})
                    ELSE Step("ExecuteRstore",
                              Return([Cur EXCEPT
                                        !.memory = WriteWord(@, address,
                                                             registers[source_register_index]),
                                        !.pc = Add32(@, length)],
                                     FALSE), {})

ExecuteRstore ==
    /\ Dispatched(17)
    /\ \E length \in GetInstructionLength(opcode_map, RSTORE), g \in OperandGarbage(2) :
        LET source_register_index == ReadByte(program_counter + 1, g)
            address_register_index == ReadByte(program_counter + 2, g)
            address == registers[address_register_index]
        IN  IF ~InstructionFitsInMemory(length)
            THEN Step("ExecuteRstore", Return(SetFlag(Cur, "BAD_ACCESS"), TRUE), {})
            ELSE IF ~IsValidRegisterIndex(source_register_index)
                    \/ ~IsValidRegisterIndex(address_register_index)
            THEN Step("ExecuteRstore", Return(SetFlag(Cur, "BAD_ACCESS"), TRUE), {})
            ELSE \E trap \in Traps({address}) :
                    IF trap
                    THEN Step("ExecuteRstore", Undefined, {})
                    ELSE Step("ExecuteRstore",
                              Return([Cur EXCEPT
                                        !.memory = WriteWord(@, address,
                                                             registers[source_register_index])],
                                     FALSE), {})

(* -------------------------------------------------------------- auxiliary *)
\* Whether PrintString(vm, address) traps: not when the string ends in the
\* tape, always when it starts far outside it.
StringTraps(address) ==
    IF ByteInTape(address) /\ \E z \in address..(memory_size - 1) : memory[z] = 0
    THEN {FALSE}
    ELSE IF address >= 0 - HeapSlack /\ address <= memory_size - 1 + HeapSlack
    THEN {FALSE, TRUE}
    ELSE {TRUE}

\* A faulty INT that reports an interrupt number it does not know as a bad
\* instruction: C19 does not hold of it.
ExecuteInterruptFlagsUnknown ==
    /\ Dispatched(19)
    /\ \E length \in GetInstructionLength(opcode_map, INT), g \in OperandGarbage(1) :
        LET interrupt_number == ReadByte(program_counter + 1, g)
        IN  IF ~InstructionFitsInMemory(length)
            THEN Step("ExecuteInterrupt", Return(SetFlag(Cur, "BAD_ACCESS"), TRUE), {})
            ELSE IF StackIsEmpty
            THEN Step("ExecuteInterrupt", Return(SetFlag(Cur, "STACK_UNDERFLOW"), TRUE), {})
            ELSE IF interrupt_number \notin {INTERRUPT_PRINT_INTEGER, INTERRUPT_PRINT_STRING}
            THEN Step("ExecuteInterrupt", Return(SetFlag(Cur, "BAD_INSTRUCTION"), TRUE), {})
            ELSE \E h \in Indeterminate(WordInTape(stack_pointer)) :
                 LET word == PopVM(Cur, h).word
                 IN  \E trap \in Traps({stack_pointer}),
                        string_trap \in IF interrupt_number = INTERRUPT_PRINT_STRING
                                        THEN StringTraps(word) ELSE {FALSE} :
                        IF trap \/ string_trap
                        THEN Step("ExecuteInterrupt", Undefined, {})
                        ELSE Step("ExecuteInterrupt",
                                  Return([PopVM(Cur, h).vm EXCEPT !.pc = Add32(@, length)],
                                         FALSE), {})

ExecuteInterrupt ==
    /\ Dispatched(19)
    /\ \E length \in GetInstructionLength(opcode_map, INT), g \in OperandGarbage(1) :
        LET interrupt_number == ReadByte(program_counter + 1, g)
        IN  IF ~InstructionFitsInMemory(length)
            THEN Step("ExecuteInterrupt", Return(SetFlag(Cur, "BAD_ACCESS"), TRUE), {})
            ELSE IF StackIsEmpty
            THEN Step("ExecuteInterrupt", Return(SetFlag(Cur, "STACK_UNDERFLOW"), TRUE), {})
            ELSE IF interrupt_number \notin {INTERRUPT_PRINT_INTEGER, INTERRUPT_PRINT_STRING}
            THEN Step("ExecuteInterrupt", Return(Cur, TRUE), {})
            ELSE \E h \in Indeterminate(WordInTape(stack_pointer)) :
                 LET word == PopVM(Cur, h).word
                 IN  \E trap \in Traps({stack_pointer}),
                        string_trap \in IF interrupt_number = INTERRUPT_PRINT_STRING
                                        THEN StringTraps(word) ELSE {FALSE} :
                        IF trap \/ string_trap
                        THEN Step("ExecuteInterrupt", Undefined, {})
                        ELSE Step("ExecuteInterrupt",
                                  Return([PopVM(Cur, h).vm EXCEPT !.pc = Add32(@, length)],
                                         FALSE), {})

ExecuteNop ==
    /\ Dispatched(20)
    /\ \E length \in GetInstructionLength(opcode_map, NOP) :
        IF ~InstructionFitsInMemory(length)
        THEN Step("ExecuteNop", Return(SetFlag(Cur, "BAD_ACCESS"), TRUE), {})
        ELSE Step("ExecuteNop", Return([Cur EXCEPT !.pc = Add32(@, length)], FALSE), {})

ExecuteHalt ==
    /\ Dispatched(18)
    /\ Step("ExecuteHalt", Return(Cur, TRUE), {})

(* ------------------------------------------------------------------ stack *)
ExecutePush ==
    /\ Dispatched(21)
    /\ \E length \in GetInstructionLength(opcode_map, PUSH), g \in OperandGarbage(1) :
        LET register_index == ReadByte(program_counter + 1, g)
            top == Sub32(stack_pointer, 4)
        IN  IF ~InstructionFitsInMemory(length)
            THEN Step("ExecutePush", Return(SetFlag(Cur, "BAD_ACCESS"), TRUE), {})
            ELSE IF StackIsFull
            THEN Step("ExecutePush", Return(Cur, TRUE), {})
            ELSE IF ~IsValidRegisterIndex(register_index)
            THEN Step("ExecutePush", Return(SetFlag(Cur, "INVALID_REGISTER_INDEX"), TRUE), {})
            ELSE \E trap \in Traps({top}) :
                    IF trap
                    THEN Step("ExecutePush", Undefined, {})
                    ELSE Step("ExecutePush",
                              Return([Cur EXCEPT
                                        !.memory = WriteWord(@, top, registers[register_index]),
                                        !.sp = top,
                                        !.pc = Add32(@, length)], FALSE),
                              Pushed("ExecutePush", top, registers[register_index]))

ExecutePushAll ==
    /\ Dispatched(22)
    /\ \E length \in GetInstructionLength(opcode_map, PUSH_ALL) :
        LET a1 == Sub32(stack_pointer, 4)
            a2 == Sub32(stack_pointer, 8)
            a3 == Sub32(stack_pointer, 12)
            a4 == Sub32(stack_pointer, 16)
        IN  IF ~InstructionFitsInMemory(length)
            THEN Step("ExecutePushAll", Return(SetFlag(Cur, "BAD_ACCESS"), TRUE), {})
            ELSE IF ~CanPerformMultipush
            THEN Step("ExecutePushAll", Return(SetFlag(Cur, "STACK_OVERFLOW"), TRUE), {})
            ELSE \E trap \in Traps({a1, a2, a3, a4}) :
                    IF trap
                    THEN Step("ExecutePushAll", Undefined, {})
                    ELSE Step("ExecutePushAll",
                              Return([Cur EXCEPT
                                        !.memory =
                                            WriteWord(WriteWord(WriteWord(WriteWord(@,
                                                a1, registers[REG1]),
                                                a2, registers[REG2]),
                                                a3, registers[REG3]),
                                                a4, registers[REG4]),
                                        !.sp = a4,
                                        !.pc = Add32(@, length)], FALSE),
                              Pushed("ExecutePushAll", a1, registers[REG1])
                              \cup Pushed("ExecutePushAll", a2, registers[REG2])
                              \cup Pushed("ExecutePushAll", a3, registers[REG3])
                              \cup Pushed("ExecutePushAll", a4, registers[REG4]))

ExecutePop ==
    /\ Dispatched(23)
    /\ \E length \in GetInstructionLength(opcode_map, POP), g \in OperandGarbage(1) :
        LET register_index == ReadByte(program_counter + 1, g)
            address == Add32(stack_pointer, 4)
        IN  IF ~InstructionFitsInMemory(length)
            THEN Step("ExecutePop", Return(SetFlag(Cur, "BAD_ACCESS"), TRUE), {})
            ELSE IF StackIsEmpty
            THEN Step("ExecutePop", Return(Cur, TRUE), {})
            ELSE IF ~IsValidRegisterIndex(register_index)
            THEN Step("ExecutePop", Return(SetFlag(Cur, "INVALID_REGISTER_INDEX"), TRUE), {})
            ELSE \E h \in Indeterminate(WordInTape(address)),
                    trap \in Traps({address}) :
                    IF trap
                    THEN Step("ExecutePop", Undefined, {})
                    ELSE Step("ExecutePop",
                              Return([Cur EXCEPT
                                        !.registers[register_index] =
                                            ReadWord(memory, address, h),
                                        !.sp = Add32(@, 4),
                                        !.pc = Add32(@, length)], FALSE), {})

\* A faulty POP_ALL that takes the registers in ascending order from the
\* stack pointer: C17 does not hold of it.
ExecutePopAllAscending ==
    /\ Dispatched(24)
    /\ \E length \in GetInstructionLength(opcode_map, POP_ALL) :
        LET a4 == stack_pointer
            a3 == Add32(stack_pointer, 4)
            a2 == Add32(stack_pointer, 8)
            a1 == Add32(stack_pointer, 12)
            defined == \A a \in {a1, a2, a3, a4} : WordInTape(a)
        IN  IF ~InstructionFitsInMemory(length)
            THEN Step("ExecutePopAll", Return(SetFlag(Cur, "BAD_ACCESS"), TRUE), {})
            ELSE IF ~CanPerformMultipop
            THEN Step("ExecutePopAll", Return(SetFlag(Cur, "STACK_UNDERFLOW"), TRUE), {})
            ELSE \E h \in Indeterminate(defined), trap \in Traps({a1, a2, a3, a4}) :
                    IF trap
                    THEN Step("ExecutePopAll", Undefined, {})
                    ELSE Step("ExecutePopAll",
                              Return([Cur EXCEPT
                                        !.registers =
                                            [r \in 0..(N_REGISTERS - 1) |->
                                                ReadWord(memory,
                                                         Add32(stack_pointer, WordSize * r), h)],
                                        !.sp = Add32(@, 16),
                                        !.pc = Add32(@, length)], FALSE), {})

ExecutePopAll ==
    /\ Dispatched(24)
    /\ \E length \in GetInstructionLength(opcode_map, POP_ALL) :
        LET a4 == stack_pointer
            a3 == Add32(stack_pointer, 4)
            a2 == Add32(stack_pointer, 8)
            a1 == Add32(stack_pointer, 12)
            defined == \A a \in {a1, a2, a3, a4} : WordInTape(a)
        IN  IF ~InstructionFitsInMemory(length)
            THEN Step("ExecutePopAll", Return(SetFlag(Cur, "BAD_ACCESS"), TRUE), {})
            ELSE IF ~CanPerformMultipop
            THEN Step("ExecutePopAll", Return(SetFlag(Cur, "STACK_UNDERFLOW"), TRUE), {})
            ELSE \E h \in Indeterminate(defined), trap \in Traps({a1, a2, a3, a4}) :
                    IF trap
                    THEN Step("ExecutePopAll", Undefined, {})
                    ELSE Step("ExecutePopAll",
                              Return([Cur EXCEPT
                                        !.registers =
                                            [r \in 0..(N_REGISTERS - 1) |->
                                                ReadWord(memory,
                                                         Add32(stack_pointer,
                                                               WordSize * (REG4 - r)), h)],
                                        !.sp = Add32(@, 16),
                                        !.pc = Add32(@, length)], FALSE), {})

ExecuteLSP ==
    /\ Dispatched(25)
    /\ \E length \in GetInstructionLength(opcode_map, LSP), g \in OperandGarbage(1) :
        LET register_index == ReadByte(program_counter + 1, g)
        IN  IF ~InstructionFitsInMemory(length)
            THEN Step("ExecuteLSP", Return(SetFlag(Cur, "BAD_ACCESS"), TRUE), {})
            ELSE IF ~IsValidRegisterIndex(register_index)
            THEN Step("ExecuteLSP", Return(SetFlag(Cur, "INVALID_REGISTER_INDEX"), TRUE), {})
            ELSE Step("ExecuteLSP",
                      Return([Cur EXCEPT
                                !.registers[register_index] = stack_pointer,
                                !.pc = Add32(@, length)], FALSE), {})

(* ------------------------------------------------------------------ RunVM *)
Next ==
    \/ RunVMBadAccess
    \/ RunVMBadInstruction
    \/ RunVMWildIndex
    \/ ExecuteAdd
    \/ ExecuteNeg
    \/ ExecuteMul
    \/ ExecuteDiv
    \/ ExecuteMod
    \/ ExecuteCmp
    \/ ExecuteJumpIfAbove
    \/ ExecuteJumpIfEqual
    \/ ExecuteJumpIfBelow
    \/ ExecuteJump
    \/ ExecuteCall
    \/ ExecuteRet
    \/ ExecuteLoad
    \/ ExecuteStore
    \/ ExecuteConst
    \/ ExecuteRload
    \/ ExecuteRstore
    \/ ExecuteInterrupt
    \/ ExecuteNop
    \/ ExecuteHalt
    \/ ExecutePush
    \/ ExecutePushAll
    \/ ExecutePop
    \/ ExecutePopAll
    \/ ExecuteLSP

Spec == Init /\ [][Next]_vars

(* ================================================================= claims *)
AnyFault(st) == \E f \in FaultFlags : st[f] = 1

\* The fetched opcode is registered, and its instruction fits in the tape.
FetchedFits ==
    /\ Fetch
    /\ FetchedIndex.hi = 0
    /\ FetchedIndex.lo >= 1
    /\ FetchedIndex.lo < Len(instructions)
    /\ program_counter + instructions[FetchedIndex.lo + 1].size <= memory_size

\* RunVM is about to run 'rule' on an instruction that fits.
About(rule) == FetchedFits /\ instructions[FetchedIndex.lo + 1].execute = rule

\* The offsets of the register operand bytes of the fetched instruction.
RegisterOperandOffsets ==
    IF \E r \in {"ExecuteAdd", "ExecuteMul", "ExecuteDiv", "ExecuteMod", "ExecuteCmp",
                 "ExecuteRload", "ExecuteRstore"} : About(r)
    THEN {1, 2}
    ELSE IF \E r \in {"ExecuteNeg", "ExecuteLoad", "ExecuteStore", "ExecuteConst",
                      "ExecutePush", "ExecutePop", "ExecuteLSP"} : About(r)
    THEN {1}
    ELSE {}

Operand(offset) == memory[program_counter + offset]

\* C1: a POP that finds at the stack pointer the intact word a PUSH wrote
\* puts the pushed value in its register and returns the stack pointer to
\* its value before that PUSH (so nested pushes pop back in reverse order).
C1_PushThenPopRestores ==
    [][ \A e \in shadow :
          ( /\ About("ExecutePop")
            /\ IsValidRegisterIndex(Operand(1))
            /\ e.addr = stack_pointer
            /\ e.rule = "ExecutePush" )
          => /\ registers'[Operand(1)] = e.value
             /\ stack_pointer' = e.sp0 ]_vars

\* C2: in every reachable state the stack pointer lies in
\* [stack_limit, memory_size].
C2_StackPointerInRange ==
    stack_limit <= stack_pointer /\ stack_pointer <= memory_size

\* C3: a RET that finds at the stack pointer the intact word a CALL at
\* address c wrote continues at c + 5 with the stack pointer the CALL found.
C3_CallThenRetReturns ==
    \A e \in last.tags :
        ( /\ last.rule = "ExecuteRet" /\ last.opcode = RET
          /\ e.rule = "ExecuteCall" /\ e.opcode = CALL )
        => /\ mode = "RUNNING"
           /\ program_counter = e.site + 5
           /\ stack_pointer = e.sp0

\* A RET has returned behind a CALL that is not the first instruction.
C3_Witness ==
    \E e \in last.tags :
        /\ last.rule = "ExecuteRet" /\ last.opcode = RET
        /\ e.rule = "ExecuteCall" /\ e.opcode = CALL
        /\ e.site > 0
        /\ program_counter = e.site + 5
        /\ stack_pointer = e.sp0

\* C4: whenever a fault flag is set the loop has halted.
C4_FaultMeansHalted == AnyFault(status) => mode = "HALTED"

\* C5: an instruction with a register operand byte outside 0..3 sets
\* INVALID_REGISTER_INDEX and halts, with registers, memory, pc and sp
\* unchanged (a PUSH on a full stack and a POP on an empty one, which fault
\* on the stack first, are left to C6 and C7).
C5_InvalidRegisterHalts ==
    [][ ( /\ \E o \in RegisterOperandOffsets : ~IsValidRegisterIndex(Operand(o))
          /\ ~(About("ExecutePush") /\ StackIsFull)
          /\ ~(About("ExecutePop") /\ StackIsEmpty) )
        => /\ status'.INVALID_REGISTER_INDEX = 1
           /\ mode' = "HALTED"
           /\ UNCHANGED << registers, memory, program_counter, stack_pointer >> ]_vars

\* C6: PUSH or CALL with fewer than 4 free bytes above the stack fence, and
\* PUSH_ALL with fewer than 16, set STACK_OVERFLOW and halt, with sp, pc and
\* memory unchanged.
C6_NoHeadroomOverflows ==
    [][ ( \/ /\ About("ExecutePush") \/ About("ExecuteCall")
             /\ stack_pointer < stack_limit + WordSize
          \/ /\ About("ExecutePushAll")
             /\ stack_pointer < stack_limit + WordSize * N_REGISTERS )
        => /\ status'.STACK_OVERFLOW = 1
           /\ mode' = "HALTED"
           /\ UNCHANGED << stack_pointer, program_counter, memory >> ]_vars

\* C7: POP, RET or INT on an empty stack (stack_pointer >= memory_size) set
\* STACK_UNDERFLOW and halt, with registers, pc and sp unchanged.
C7_EmptyStackUnderflows ==
    [][ ( /\ About("ExecutePop") \/ About("ExecuteRet") \/ About("ExecuteInterrupt")
          /\ stack_pointer >= memory_size )
        => /\ status'.STACK_UNDERFLOW = 1
           /\ mode' = "HALTED"
           /\ UNCHANGED << registers, program_counter, stack_pointer >> ]_vars

\* C8: POP_ALL with fewer than 16 bytes from the stack pointer up to
\* memory_size sets STACK_UNDERFLOW and halts, with the registers, sp and pc
\* unchanged.
C8_PopAllUnderflows ==
    [][ ( /\ About("ExecutePopAll")
          /\ stack_pointer > memory_size - WordSize * N_REGISTERS )
        => /\ status'.STACK_UNDERFLOW = 1
           /\ mode' = "HALTED"
           /\ UNCHANGED << registers, stack_pointer, program_counter >> ]_vars

\* The tape address a LOAD, STORE, RLOAD or RSTORE with valid register
\* operands is about to access.
DataAddresses ==
    IF (About("ExecuteLoad") \/ About("ExecuteStore")) /\ IsValidRegisterIndex(Operand(1))
    THEN { ReadWord(memory, program_counter + 2, 0) }
    ELSE IF /\ About("ExecuteRload") \/ About("ExecuteRstore")
            /\ IsValidRegisterIndex(Operand(1)) /\ IsValidRegisterIndex(Operand(2))
    THEN { registers[Operand(IF About("ExecuteRload") THEN 1 ELSE 2)] }
    ELSE {}

\* C9: a LOAD, STORE, RLOAD or RSTORE whose address is not that of a word
\* of the tape halts with a fault flag, and reads and writes nothing.
C9_OutsideAccessFaults ==
    [][ (\E a \in DataAddresses : ~WordInTape(a))
        => /\ mode' = "HALTED"
           /\ AnyFault(status')
           /\ UNCHANGED << registers, memory >> ]_vars

\* C10: when the opcode at the program counter has opcode map entry 0, the
\* step sets BAD_INSTRUCTION and halts, with pc, registers, sp and memory
\* unchanged.
C10_UnregisteredOpcodeHalts ==
    [][ (Fetch /\ FetchedIndex = SizeT(0))
        => /\ status'.BAD_INSTRUCTION = 1
           /\ mode' = "HALTED"
           /\ UNCHANGED << program_counter, registers, stack_pointer, memory >> ]_vars

\* RunVM has halted on an unregistered opcode that is not a zero byte, after
\* at least one instruction.
C10_Witness ==
    /\ last.rule = "RunVM"
    /\ last.pc > 0 /\ last.pc < memory_size
    /\ last.opcode # 0
    /\ memory[last.pc] = last.opcode
    /\ opcode_map[last.opcode] = SizeT(0)
    /\ status.BAD_INSTRUCTION = 1
    /\ mode = "HALTED"
    /\ program_counter = last.pc

\* The size of the instruction 'opcode' is registered for (InitializeVM's map).
SizeOf(opcode) == instructions[InitialOpcodeMap[opcode].lo + 1].size

\* The fetched opcode is registered, and its instruction runs past the tape.
FetchedRunsPast ==
    /\ Fetch
    /\ FetchedIndex.hi = 0
    /\ FetchedIndex.lo >= 1
    /\ FetchedIndex.lo < Len(instructions)
    /\ program_counter + instructions[FetchedIndex.lo + 1].size > memory_size

\* C11: a step taken with the program counter outside [0, memory_size), or
\* on an instruction whose fixed length runs past memory_size, sets
\* BAD_ACCESS and halts, with registers, memory, pc and sp unchanged; so a
\* jump, CALL or RET to a target outside the tape is caught by the next step.
C11_BadAccessBeforeOperands ==
    [][ ( /\ mode = "RUNNING"
          /\ ~ByteInTape(program_counter) \/ FetchedRunsPast )
        => /\ status'.BAD_ACCESS = 1
           /\ mode' = "HALTED"
           /\ UNCHANGED << registers, memory, program_counter, stack_pointer >> ]_vars

\* A rule has refused, after a jump, an instruction that runs past the tape.
C11_Witness ==
    /\ last.rule \notin {"InitializeVM", "RunVM"}
    /\ last.pc > 0 /\ last.pc < memory_size
    /\ last.opcode \in OperandOpcodes
    /\ memory[last.pc] = last.opcode
    /\ last.pc + SizeOf(last.opcode) > memory_size
    /\ status = [ZeroStatus EXCEPT !.BAD_ACCESS = 1]
    /\ mode = "HALTED"
    /\ program_counter = last.pc

\* The comparison flags read "equal": EQUAL set, ABOVE and BELOW clear.
ComparedEqual ==
    /\ status.COMPARISON_EQUAL = 1
    /\ status.COMPARISON_ABOVE = 0
    /\ status.COMPARISON_BELOW = 0

\* C12: CMP r1,r2 on valid registers sets BELOW iff r1 < r2, ABOVE iff
\* r1 > r2 and EQUAL iff r1 = r2 as signed words (so equal values leave EQUAL
\* set and the other two clear); with the flags reading "equal", JE goes to
\* its embedded target and JA and JB fall through to pc + 5.
C12_CompareThenBranch ==
    [][ /\ ( About("ExecuteCmp")
             /\ IsValidRegisterIndex(Operand(1)) /\ IsValidRegisterIndex(Operand(2)) )
           => /\ status'.COMPARISON_BELOW = 1 <=> registers[Operand(1)] < registers[Operand(2)]
              /\ status'.COMPARISON_ABOVE = 1 <=> registers[Operand(1)] > registers[Operand(2)]
              /\ status'.COMPARISON_EQUAL = 1 <=> registers[Operand(1)] = registers[Operand(2)]
              /\ \A f \in ComparisonFlags : status'[f] \in {0, 1}
        /\ ( About("ExecuteJumpIfEqual") /\ ComparedEqual )
           => program_counter' = ReadWord(memory, program_counter + 1, 0)
        /\ ( (About("ExecuteJumpIfAbove") \/ About("ExecuteJumpIfBelow")) /\ ComparedEqual )
           => program_counter' = program_counter + 5 ]_vars

\* A JE has jumped, not fallen through, after a CMP of two registers that
\* hold the same non-zero value.
C12_Witness ==
    /\ last.rule = "ExecuteJumpIfEqual"
    /\ last.opcode = JE
    /\ ComparedEqual
    /\ registers[REG1] = registers[REG2]
    /\ registers[REG1] # 0
    /\ mode = "RUNNING"
    /\ program_counter = ReadWord(memory, last.pc + 1, 0)
    /\ program_counter # last.pc + 5

\* C13: in every reachable state at most one of COMPARISON_BELOW,
\* COMPARISON_EQUAL and COMPARISON_ABOVE is set.
C13_OneComparisonFlag ==
    Cardinality({ f \in ComparisonFlags : status[f] = 1 }) <= 1

\* C14: a fault flag that is set stays set: no step clears any of
\* BAD_INSTRUCTION, STACK_UNDERFLOW, STACK_OVERFLOW, INVALID_REGISTER_INDEX
\* and BAD_ACCESS.
C14_FaultFlagsSticky ==
    [][ \A f \in FaultFlags : status[f] = 1 => status'[f] = 1 ]_vars

\* RunVM is about to run ADD on two valid register operands.
AboutAdd ==
    /\ About("ExecuteAdd")
    /\ IsValidRegisterIndex(Operand(1))
    /\ IsValidRegisterIndex(Operand(2))

\* C15 as claimed: ADD r1,r2, operand bytes in that order, leaves r1 holding
\* the sum of the two registers and advances pc by 3; no other register,
\* flag, sp or memory byte changes.
C15_AddIntoFirstOperand ==
    [][ AboutAdd
        => /\ registers' = [registers EXCEPT
                              ![Operand(1)] = Add32(registers[Operand(1)], registers[Operand(2)])]
           /\ program_counter' = program_counter + 3
           /\ UNCHANGED << status, stack_pointer, memory >> ]_vars

\* C15, amended: ADD r1,r2, operand bytes in that order, leaves r2 (the
\* target, the second operand byte) holding the sum of the two registers and
\* advances pc by 3; no other register, flag, sp or memory byte changes.
C15_AddIntoSecondOperand ==
    [][ AboutAdd
        => /\ registers' = [registers EXCEPT
                              ![Operand(2)] = Add32(registers[Operand(2)], registers[Operand(1)])]
           /\ program_counter' = program_counter + 3
           /\ UNCHANGED << status, stack_pointer, memory >> ]_vars

\* An ADD of two different registers, the first holding 7, has left the sum
\* in the second and the first as it was.
C15_Witness ==
    /\ last.rule = "ExecuteAdd"
    /\ last.opcode = ADD
    /\ mode = "RUNNING"
    /\ program_counter = last.pc + 3
    /\ memory[last.pc + 1] = REG1
    /\ memory[last.pc + 2] = REG3
    /\ registers[REG1] = 7
    /\ registers[REG3] = 5

(* ------------------------------------------------------ the word encoding *)
\* The 32-bit words written and embedded: zero, small and large, negative
\* and with the top bit of each byte set.
WordValues ==
    { 0, 1, -1, 7, -2, 128, 255, 256, 32768, 8388608, 305419896, -305419896,
      -16777216, MaxInt32, MinInt32 }

\* The base-256 digits of n >= 0, lowest first.
Digits(n) == << n % 256, (n \div 256) % 256, (n \div 65536) % 256, n \div 16777216 >>

\* The little-endian two's-complement encoding of 'value': byte k holds bits
\* 8k..8k+7; a negative value is the complement of -(value + 1).
LittleEndian(value) ==
    IF value >= 0 THEN Digits(value)
    ELSE [k \in 1..WordSize |-> 255 - Digits(0 - (value + 1))[k]]

\* The programs CONST r, v for every register and every word, the literal
\* embedded in that encoding.
WordFiles ==
    { << CONST, r >> \o LittleEndian(v) : r \in 0..(N_REGISTERS - 1), v \in WordValues }

InitWord == \E file \in WordFiles : Loaded(file)

\* After the run, one call WriteWord(vm, address, value) with the word in
\* the tape.
WriteWordCall ==
    /\ mode = "HALTED"
    /\ shadow = {}
    /\ \E address \in 0..(memory_size - WordSize), value \in WordValues :
        Step("WriteWord", [Cur EXCEPT !.memory = WriteWord(@, address, value)],
             { [addr |-> address, rule |-> "WriteWord", opcode |-> 0,
                value |-> value, site |-> 0, sp0 |-> stack_pointer] })

NextWord ==
    \/ ExecuteConst
    \/ RunVMBadInstruction
    \/ WriteWordCall

SpecWord == InitWord /\ [][NextWord]_vars

\* C16: after WriteWord(a, v) with the word in the tape, ReadWord(a) is v
\* and the bytes at a..a+3 are v's little-endian encoding, for negative v
\* too; and CONST r,v leaves r equal to the literal v embedded at pc+2.
C16_WordRoundTrip ==
    /\ \A e \in shadow :
        e.rule = "WriteWord"
        => /\ ReadWord(memory, e.addr, 0) = e.value
           /\ \A k \in 0..(WordSize - 1) : memory[e.addr + k] = LittleEndian(e.value)[k + 1]
    /\ (last.rule = "ExecuteConst" /\ mode = "RUNNING")
        => \A v \in WordValues :
            (\A k \in 0..(WordSize - 1) : memory[last.pc + 2 + k] = LittleEndian(v)[k + 1])
            => registers[memory[last.pc + 1]] = v

\* WriteWord has written a negative word at the last word of the tape, and
\* the run before it loaded a negative literal with CONST.
C16_Witness ==
    \E e \in shadow :
        /\ e.rule = "WriteWord"
        /\ e.value < -1
        /\ e.addr = memory_size - WordSize
        /\ memory[e.addr + 3] >= 128
        /\ ReadWord(memory, e.addr, 0) = e.value
        /\ \E r \in 0..(N_REGISTERS - 1) : registers[r] = MinInt32

\* The intact words of the frame a PUSH_ALL left at the stack pointer: the
\* word of register r lies at stack_pointer + 4 * (REG4 - r).
SavedAt(r) ==
    { e \in shadow : /\ e.rule = "ExecutePushAll"
                     /\ e.addr = stack_pointer + WordSize * (REG4 - r)
                     /\ e.sp0 = stack_pointer + WordSize * N_REGISTERS }

\* C17: PUSH_ALL with 16 bytes of headroom stores REG1..REG4 at old_sp-4 ..
\* old_sp-16 and moves sp down by 16; a POP_ALL that finds that frame intact
\* at the stack pointer gives all four registers the values they had at the
\* PUSH_ALL, whatever they hold now, and returns sp to its value before it.
C17_PushAllThenPopAllRestores ==
    [][ /\ ( /\ About("ExecutePushAll")
             /\ stack_limit + WordSize * N_REGISTERS <= stack_pointer
             /\ stack_pointer <= memory_size )
           => /\ mode' = "RUNNING"
              /\ stack_pointer' = stack_pointer - WordSize * N_REGISTERS
              /\ registers' = registers
              /\ \A r \in 0..(N_REGISTERS - 1) :
                    ReadWord(memory', stack_pointer - WordSize * (r + 1), 0) = registers[r]
        /\ ( /\ About("ExecutePopAll")
             /\ \A r \in 0..(N_REGISTERS - 1) : SavedAt(r) # {} )
           => /\ mode' = "RUNNING"
              /\ stack_pointer' = stack_pointer + WordSize * N_REGISTERS
              /\ \A r \in 0..(N_REGISTERS - 1) : \A e \in SavedAt(r) : registers'[r] = e.value
       ]_vars

\* A POP_ALL has restored REG1 and REG2, both overwritten since the
\* PUSH_ALL that saved the stack top and 7 in them.
C17_Witness ==
    /\ last.rule = "ExecutePopAll"
    /\ last.opcode = POP_ALL
    /\ mode = "RUNNING"
    /\ last.pc >= 8
    /\ memory[last.pc - 8] = CONST
    /\ memory[last.pc - 7] = REG2
    /\ ReadWord(memory, last.pc - 6, 0) = -2
    /\ registers[REG2] = 7
    /\ registers[REG1] = memory_size
    /\ stack_pointer = memory_size
    /\ last.sp = memory_size - WordSize * N_REGISTERS

\* C18: the three comparison flags are changed only by CMP: a step that
\* changes COMPARISON_BELOW, COMPARISON_EQUAL or COMPARISON_ABOVE is a step
\* of ExecuteCmp.
C18_OnlyCmpChangesComparisonFlags ==
    [][ (\E f \in ComparisonFlags : status'[f] # status[f]) => About("ExecuteCmp") ]_vars

\* RunVM is about to run INT with an interrupt number that is neither
\* INTERRUPT_PRINT_INTEGER nor INTERRUPT_PRINT_STRING.
AboutUnknownInterrupt ==
    /\ About("ExecuteInterrupt")
    /\ Operand(1) \notin {INTERRUPT_PRINT_INTEGER, INTERRUPT_PRINT_STRING}

\* The step stops the loop and changes nothing of the machine.
HaltsUnchanged ==
    /\ mode' = "HALTED"
    /\ status' = status
    /\ program_counter' = program_counter
    /\ stack_pointer' = stack_pointer
    /\ registers' = registers
    /\ memory' = memory
    /\ opcode_map' = opcode_map

\* C19 as stated: HALT, and INT with an interrupt number other than 1 or 2,
\* stop the loop and leave the eight flags, pc and sp as they were.
C19_HaltAndUnknownInterruptSilent ==
    [][ (About("ExecuteHalt") \/ AboutUnknownInterrupt)
        => /\ mode' = "HALTED"
           /\ status' = status
           /\ program_counter' = program_counter
           /\ stack_pointer' = stack_pointer ]_vars

\* C19 amended: HALT, and INT with an interrupt number other than 1 or 2 on
\* a non-empty stack, stop the loop and change no flag, pc, sp, register or
\* memory byte; the same INT on an empty stack halts with STACK_UNDERFLOW as
\* the only change.
C19_SilentUnlessStackEmpty ==
    [][ /\ (About("ExecuteHalt") \/ (AboutUnknownInterrupt /\ ~StackIsEmpty))
           => HaltsUnchanged
        /\ (AboutUnknownInterrupt /\ StackIsEmpty)
           => /\ mode' = "HALTED"
              /\ status' = [status EXCEPT !["STACK_UNDERFLOW"] = 1]
              /\ program_counter' = program_counter
              /\ stack_pointer' = stack_pointer ]_vars

\* An INT with an unknown number has halted the machine on a non-empty
\* stack with every flag clear.
C19_Witness ==
    /\ last.rule = "ExecuteInterrupt"
    /\ last.opcode = INT
    /\ mode = "HALTED"
    /\ program_counter = last.pc
    /\ ByteInTape(last.pc + 1)
    /\ memory[last.pc + 1] \notin {INTERRUPT_PRINT_INTEGER, INTERRUPT_PRINT_STRING}
    /\ stack_pointer < memory_size
    /\ \A f \in DOMAIN status : status[f] = 0

\* C20: InitializeVM makes memory_size and stack_limit the smallest
\* multiples of 4 that are >= the requested values (a request already
\* divisible by 4 is kept), so that with main's arguments the fence is at
\* least the file size.
C20_RoundedToSmallestMultiple ==
    /\ memory_size % WordSize = 0
    /\ memory_size >= requested.memory_size
    /\ memory_size < requested.memory_size + WordSize
    /\ stack_limit % WordSize = 0
    /\ stack_limit >= requested.stack_limit
    /\ stack_limit < requested.stack_limit + WordSize
    /\ requested.memory_size = 2 * requested.stack_limit

\* RunVM is about to run RSTORE on two valid register operands, the address
\* register pointing at a word inside the tape.
AboutRstore ==
    /\ About("ExecuteRstore")
    /\ IsValidRegisterIndex(Operand(1))
    /\ IsValidRegisterIndex(Operand(2))
    /\ WordInTape(registers[Operand(2)])

\* The word RSTORE is about to write shares no byte with the three bytes of
\* the instruction.
RstoreSparesItself ==
    \/ registers[Operand(2)] + WordSize <= program_counter
    \/ registers[Operand(2)] >= program_counter + SizeOf(RSTORE)

\* C21 as stated: after a successful RSTORE the loop is about to run the
\* same RSTORE again, still running and with the same pc, so the run never
\* halts.
C21_RstoreRepeatsForever ==
    [][ AboutRstore => /\ mode' = "RUNNING"
                       /\ program_counter' = program_counter
                       /\ AboutRstore' ]_vars

\* C21 amended: an RSTORE whose word does not overlap its own three bytes
\* writes that word and leaves the machine about to run the same RSTORE on
\* the same operands, with pc, sp, registers and flags unchanged; the
\* condition holds again after the step, so the run never halts and pc never
\* changes.
C21_RstoreRepeatsUnlessOverwritten ==
    [][ (AboutRstore /\ RstoreSparesItself)
        => /\ mode' = "RUNNING"
           /\ program_counter' = program_counter
           /\ stack_pointer' = stack_pointer
           /\ registers' = registers
           /\ status' = status
           /\ memory' = WriteWord(memory, registers[Operand(2)], registers[Operand(1)])
           /\ AboutRstore'
           /\ RstoreSparesItself' ]_vars

\* An RSTORE has stored 7 into the data behind the program and is about to
\* run again at the same pc.
C21_Witness ==
    /\ last.rule = "ExecuteRstore"
    /\ last.pc = program_counter
    /\ AboutRstore
    /\ RstoreSparesItself
    /\ registers[Operand(1)] = 7
    /\ ReadWord(memory, registers[Operand(2)], 0) = 7

\* RunVM is about to run RLOAD with a register operand byte outside 0..3.
AboutInvalidRload ==
    /\ About("ExecuteRload")
    /\ \E offset \in {1, 2} : ~IsValidRegisterIndex(Operand(offset))

\* C22 as stated: RLOAD with an invalid register operand, when the access
\* does not kill the process, continues with INVALID_REGISTER_INDEX set and
\* pc advanced by 3.
C22_InvalidRloadFlagsAndAdvances ==
    [][ (AboutInvalidRload /\ mode' # "UNDEFINED")
        => /\ mode' = "RUNNING"
           /\ status'["INVALID_REGISTER_INDEX"] = 1
           /\ program_counter' = program_counter + SizeOf(RLOAD) ]_vars

\* C22 amended: RLOAD with an invalid register operand, when the access does
\* not kill the process, continues and leaves the tape alone; the word is
\* stored through the index as given, so INVALID_REGISTER_INDEX is set
\* unless the data index is 6 (the status byte), pc advances by 3 unless the
\* data index is 4 (pc) or beyond 7 (the opcode map), sp is unchanged unless
\* the data index is 5 (sp), and the registers other than the data register
\* are unchanged.
C22_InvalidRloadStoresThroughIndex ==
    [][ (AboutInvalidRload /\ mode' # "UNDEFINED")
        => /\ mode' = "RUNNING"
           /\ memory' = memory
           /\ Operand(2) # N_REGISTERS + 2
                => status' = [status EXCEPT !["INVALID_REGISTER_INDEX"] = 1]
           /\ (Operand(2) <= N_REGISTERS + 3 /\ Operand(2) # N_REGISTERS)
                => program_counter' = program_counter + SizeOf(RLOAD)
           /\ Operand(2) # N_REGISTERS + 1 => stack_pointer' = stack_pointer
           /\ \A r \in 0..(N_REGISTERS - 1) :
                r # Operand(2) => registers'[r] = registers[r]
           /\ (Operand(2) = N_REGISTERS + 1 /\ WordInTape(registers[Operand(1)]))
                => stack_pointer' = ReadWord(memory, registers[Operand(1)], 0)
           /\ (Operand(1) = N_REGISTERS /\ WordInTape(program_counter))
                => registers'[Operand(2)] = ReadWord(memory, program_counter, 0) ]_vars

\* An RLOAD with data index 5 has stored the loaded word over the stack
\* pointer and the loop goes on with INVALID_REGISTER_INDEX set.
C22_Witness ==
    /\ last.rule = "ExecuteRload"
    /\ mode = "RUNNING"
    /\ status["INVALID_REGISTER_INDEX"] = 1
    /\ program_counter = last.pc + SizeOf(RLOAD)
    /\ memory[last.pc + 2] = N_REGISTERS + 1
    /\ IsValidRegisterIndex(memory[last.pc + 1])
    /\ WordInTape(registers[memory[last.pc + 1]])
    /\ stack_pointer = ReadWord(memory, registers[memory[last.pc + 1]], 0)
    /\ stack_pointer # last.sp

\* m is the remainder n % d of C: smaller than d in magnitude, zero or of
\* the sign of n, and differing from n by a multiple of d.
IsRemainder(m, n, d) ==
    /\ Abs(m) < Abs(d)
    /\ m = 0 \/ ((m < 0) = (n < 0))
    /\ (n - m) % Abs(d) = 0

\* q is the quotient t / d of C: what is left of t after q times d is the
\* remainder t % d.
IsQuotient(q, t, d) == IsRemainder(t - q * d, t, d)

\* RunVM is about to run DIV or MOD on two valid register operands.
AboutDivOrMod ==
    /\ About("ExecuteDiv") \/ About("ExecuteMod")
    /\ IsValidRegisterIndex(Operand(1))
    /\ IsValidRegisterIndex(Operand(2))

\* C23: MOD stores source % target into the target and DIV stores
\* target / source into the target (the division being defined); both leave
\* every other register, the source included, unchanged and advance pc by 3.
C23_ModBySourceDivByTarget ==
    [][ /\ ( /\ AboutDivOrMod
             /\ About("ExecuteMod")
             /\ ~DivisionUndefined(registers[Operand(1)], registers[Operand(2)]) )
           => /\ mode' = "RUNNING"
              /\ program_counter' = program_counter + SizeOf(MOD)
              /\ IsRemainder(registers'[Operand(2)],
                             registers[Operand(1)], registers[Operand(2)])
              /\ \A r \in 0..(N_REGISTERS - 1) :
                    r # Operand(2) => registers'[r] = registers[r]
        /\ ( /\ AboutDivOrMod
             /\ About("ExecuteDiv")
             /\ ~DivisionUndefined(registers[Operand(2)], registers[Operand(1)]) )
           => /\ mode' = "RUNNING"
              /\ program_counter' = program_counter + SizeOf(DIV)
              /\ IsQuotient(registers'[Operand(2)],
                            registers[Operand(2)], registers[Operand(1)])
              /\ \A r \in 0..(N_REGISTERS - 1) :
                    r # Operand(2) => registers'[r] = registers[r] ]_vars

\* MOD REG1, REG2 has run on REG1 = -7 and REG2 = 3 and left -1 in REG2.
C23_Witness ==
    /\ last.rule = "ExecuteMod"
    /\ mode = "RUNNING"
    /\ last.pc >= 4
    /\ program_counter = last.pc + SizeOf(MOD)
    /\ memory[last.pc + 1] = REG1
    /\ memory[last.pc + 2] = REG2
    /\ ReadWord(memory, last.pc - 4, 0) = 3
    /\ registers[REG1] = -7
    /\ registers[REG2] = -1

\* The addresses of the words the stack instruction RunVM is about to run
\* writes on the tape: PUSH and CALL below the stack pointer, PUSH_ALL the
\* four words below it; none when the instruction halts before writing.
StackWrites ==
    IF About("ExecutePush") /\ ~StackIsFull /\ IsValidRegisterIndex(Operand(1))
    THEN { Sub32(stack_pointer, WordSize) }
    ELSE IF About("ExecutePushAll") /\ CanPerformMultipush
    THEN { Sub32(stack_pointer, WordSize * k) : k \in 1..N_REGISTERS }
    ELSE IF About("ExecuteCall") /\ ~(GetAvailableStackSize < WordSize)
    THEN { Sub32(stack_pointer, WordSize) }
    ELSE {}

\* The addresses of the words the stack instruction RunVM is about to run
\* reads from the stack: POP one word above the stack pointer, POP_ALL the
\* four words from it, RET and INT (through PopVM) the word at it.
StackReads ==
    IF About("ExecutePop") /\ ~StackIsEmpty /\ IsValidRegisterIndex(Operand(1))
    THEN { Add32(stack_pointer, WordSize) }
    ELSE IF About("ExecutePopAll") /\ CanPerformMultipop
    THEN { Add32(stack_pointer, WordSize * k) : k \in 0..(N_REGISTERS - 1) }
    ELSE IF About("ExecuteRet") /\ ~StackIsEmpty
    THEN { stack_pointer }
    ELSE IF /\ About("ExecuteInterrupt")
            /\ ~StackIsEmpty
            /\ Operand(1) \in {INTERRUPT_PRINT_INTEGER, INTERRUPT_PRINT_STRING}
    THEN { stack_pointer }
    ELSE {}

\* The word at 'address' lies entirely in the stack region.
InStackRegion(address) ==
    stack_limit <= address /\ address <= memory_size - WordSize

\* C24: while the stack pointer is in [stack_limit, memory_size], every
\* word a stack instruction writes or reads lies entirely in
\* [stack_limit, memory_size), and POP, RET and INT read the word at the
\* stack pointer.
C24_StackAccessesInRegion ==
    [][ (stack_limit <= stack_pointer /\ stack_pointer <= memory_size)
        => /\ \A a \in StackWrites \cup StackReads : InStackRegion(a)
           /\ (About("ExecutePop") \/ About("ExecuteRet") \/ About("ExecuteInterrupt"))
               => StackReads \subseteq { stack_pointer } ]_vars

(* ------------------------------------------------------------ termination *)
\* The rules that set the program counter, or leave it where it is.
JumpRules ==
    { "ExecuteJumpIfAbove", "ExecuteJumpIfEqual", "ExecuteJumpIfBelow", "ExecuteJump",
      "ExecuteCall", "ExecuteRet", "ExecuteRstore" }

\* RunVM is about to run an instruction other than JA, JE, JB, JMP, CALL,
\* RET and RSTORE.
AboutJumpFree ==
    /\ FetchedFits
    /\ instructions[FetchedIndex.lo + 1].execute \notin JumpRules

\* C25: every instruction other than JA, JE, JB, JMP, CALL, RET and RSTORE
\* either halts or strictly increases the program counter, so that a run
\* executing only such instructions reaches memory_size and halts.
C25_JumpFreeStepsAdvance ==
    [][ AboutJumpFree => (mode' # "RUNNING" \/ program_counter' > program_counter) ]_vars

(* --------------------------------------------------------- STORE and LOAD *)
\* The address embedded in the LOAD or STORE RunVM is about to run.
EmbeddedAddress == ReadWord(memory, program_counter + 2, 0)

\* The intact words a STORE six bytes below the program counter wrote in the
\* step before at the address the fetched instruction embeds, not
\* overlapping the six bytes of that instruction.
JustStored ==
    { e \in shadow : /\ e.rule = "ExecuteStore"
                     /\ last.rule = "ExecuteStore"
                     /\ last.pc = e.site
                     /\ e.site + SizeOf(STORE) = program_counter
                     /\ e.addr = EmbeddedAddress
                     /\ \/ e.addr + WordSize <= program_counter
                        \/ e.addr >= program_counter + SizeOf(LOAD) }

\* C26: STORE r,a with a word inside the tape advances pc by 6 and changes
\* exactly the bytes a..a+3, which then hold r; a LOAD r',a that follows it,
\* and that the stored word does not overlap, advances pc by 6 and leaves in
\* r' the value r held at the STORE.
C26_StoreThenLoad ==
    [][ /\ ( /\ About("ExecuteStore")
             /\ IsValidRegisterIndex(Operand(1))
             /\ WordInTape(EmbeddedAddress) )
           => /\ mode' = "RUNNING"
              /\ program_counter' = program_counter + SizeOf(STORE)
              /\ ReadWord(memory', EmbeddedAddress, 0) = registers[Operand(1)]
              /\ \A x \in DOMAIN memory :
                    (x < EmbeddedAddress \/ x >= EmbeddedAddress + WordSize)
                        => memory'[x] = memory[x]
        /\ ( /\ About("ExecuteLoad")
             /\ IsValidRegisterIndex(Operand(1)) )
           => \A e \in JustStored :
                 /\ mode' = "RUNNING"
                 /\ program_counter' = program_counter + SizeOf(LOAD)
                 /\ registers'[Operand(1)] = e.value ]_vars

\* LOAD REG2, 20 has run right after STORE REG1, 20 and left in REG2 the -2
\* that REG1 held.
C26_Witness ==
    /\ last.rule = "ExecuteLoad"
    /\ mode = "RUNNING"
    /\ last.pc >= 6
    /\ program_counter = last.pc + SizeOf(LOAD)
    /\ memory[last.pc - 6] = STORE
    /\ memory[last.pc - 5] = REG1
    /\ ReadWord(memory, last.pc - 4, 0) = 20
    /\ memory[last.pc + 1] = REG2
    /\ ReadWord(memory, last.pc + 2, 0) = 20
    /\ ReadWord(memory, 20, 0) = -2
    /\ registers[REG1] = -2
    /\ registers[REG2] = -2

====
